---- MODULE Spec2Model ----
(***************************************************************************)
(* Orchid: the reconciliation loop (Orchestrator) that keeps one           *)
(* ImplementorAgent per open task, the ImplementorAgent lifecycle          *)
(* (worktree -> session -> prompt -> assignment, and cleanup), and the     *)
(* providers the agent calls.                                              *)
(*                                                                         *)
(* ImplementorAgentImpl and OpencodeSessionManager are translated from     *)
(* their TypeScript sources, one model step per `await`.  The source of    *)
(* AgentOrchestrator (agent-orchestrator.ts) is not part of the source     *)
(* tree, only its test file is: the Orchestrator actions are written from  *)
(* section 4.1 / 5 of the specification and from agent-orchestrator.test.ts*)
(*                                                                         *)
(* Scope of Spec: the task stream, start(), stop() and the passes.  A pass *)
(* issues its starts and stops one by one, in any order, and their provider*)
(* calls interleave freely; every provider call may fail.  stop() is called*)
(* while the loop awaits a snapshot, and start() not while a stop() is     *)
(* pending: the specification does not say what either does otherwise.     *)
(* Idle-triggered completion (handleSessionIdle) is not part of Spec.      *)
(*                                                                         *)
(* AgentSpec: one ImplementorAgentImpl on which start(), stop() and        *)
(* handleSessionIdle() are called in any interleaving.  AgentShortSpec is  *)
(* the same agent under fewer calls.                                       *)
(*                                                                         *)
(* MonitorSpec: the ReviewAgent (completion monitor), translated from its  *)
(* source, with its polling loops, a discrete clock and the calls          *)
(* startMonitoring, stopMonitoring and stopAllMonitoring.                  *)
(* MonitorFairSpec is the same ReviewAgent with fewer calls and with weak  *)
(* fairness of the loop steps and of the clock, for termination.           *)
(*                                                                         *)
(* SessionSpec: the OpencodeSessionManager, translated from its source,    *)
(* under createSession and removeSession calls in any interleaving.        *)
(*                                                                         *)
(* Each specification leaves the variables of the others at their initial  *)
(* values.                                                                 *)
(***************************************************************************)
EXTENDS Naturals, Sequences, FiniteSets, TLC

(***************************************************************************)
(* Bounds                                                                  *)
(***************************************************************************)
\* Upper bound on the number of Orchestrator.start() calls in a behaviour.
MaxStartCalls == 2

\* Upper bound on the number of calls made on the agent in AgentSpec.
MaxAgentCalls == 3

\* Upper bound on the number of calls made on the agent in AgentShortSpec.
MaxShortCalls == 2

\* Upper bound on the number of calls made on the ReviewAgent in MonitorSpec.
MaxMonitorCalls == 4

\* Upper bound on the number of calls made on the ReviewAgent in
\* MonitorFairSpec.
MaxFairCalls == 3

\* Upper bound on the clock of MonitorSpec.
MaxTime == 7

\* ReviewAgentOptions.timeoutMs and pollIntervalMs, in model time units.
TimeoutMs == 3
PollIntervalMs == 2

\* Session ids handed to the ReviewAgent.
SessionIds == {"s1", "s2"}

\* Value of abortControllers[sid] when the map has no entry for sid.
NoLoop == 0

\* Upper bound on the number of calls made on the OpencodeSessionManager in
\* SessionSpec.
MaxSessionCalls == 3

\* Value of sessions.get(taskId) when the map has no entry for taskId.
NoSession == 0

\* Task ids delivered by the task stream.
Tasks == {"t1", "t2"}

\* Value of `snapshot' before the first snapshot of a stream was consumed.
NoSnapshot == {"<none>"}

VARIABLES
  \* ---- Orchestrator -------------------------------------------------
  isRunning,       \* AgentOrchestrator.isRunning()
  loop,            \* position of the monitor loop: "idle" | "awaitSnapshot" | "reconciling"
  stopping,        \* an Orchestrator.stop() call has not returned yet
  runningAgents,   \* [Tasks -> Nat]: number of RunningAgent entries per taskId
  snapshot,        \* the snapshot being / last reconciled (set of task ids)
  toStart,         \* starts derived from the snapshot, not issued yet
  toStop,          \* stops derived from the snapshot (or stop()), not issued yet
  failed,          \* tasks whose onError callback fired during the current pass
  passId,          \* parity of the number of diffs computed
  startCalls,      \* number of Orchestrator.start() calls
  streamsOpened,   \* number of listTaskStream() calls
  \* ---- ImplementorAgentImpl, one instance per task ----------------------
  agentIsRunning,  \* _isRunning
  session,         \* this.session is set
  startPc,         \* await at which start() is suspended
  stopPc,          \* await at which stop() is suspended
  startError,      \* cause of the error start() is handling / has reported
  startResult,     \* the promise of the last start(): "none" | "pending" | "resolved" | "rejected"
  \* ---- providers ----------------------------------------------------
  worktrees,       \* worktree exists at <worktreesDir>/<taskId>
  sessions,        \* OpencodeSessionManager.sessions has taskId
  assigned,        \* task is assigned in the task store
  \* ---- history ------------------------------------------------------
  callLog,         \* per task: provider calls issued since the pass/stop began
  okLog,           \* per task: outcome (resolved?) of the settled calls, in the
                   \* order they settled (that of callLog when one call is in flight)
  agentsBefore,    \* runningAgents when the current pass / stop() began
  prevSnapshot,    \* snapshot of the pass before the current one
  prevFailed,      \* `failed' of the pass before the current one
  \* ---- calls made on one ImplementorAgentImpl (AgentSpec) ---------------
  idlePc,          \* await at which handleSessionIdle() is suspended
  idleLog,         \* provider calls issued by the handleSessionIdle() in flight
  agentCalls,      \* number of start() / stop() / handleSessionIdle() calls
  onCompleteCalls, \* number of onComplete invocations
  onErrorCalls,    \* number of onError invocations (per pass in Spec)
  \* ---- ReviewAgent (MonitorSpec) ---------------------------------------
  now,              \* Date.now(), in model time units
  abortControllers, \* per sessionId: the polling loop whose controller is stored, or NoLoop
  loops,            \* the polling loops (monitorForIdle calls) started so far
  monitorCalls,     \* number of startMonitoring / stopMonitoring / stopAllMonitoring calls
  \* ---- OpencodeSessionManager (SessionSpec) -----------------------------
  sessionMap,       \* this.sessions: per taskId the tracked sessionId, or NoSession
  remoteSessions,   \* session ids that exist on the OpenCode server
  smCalls           \* the createSession / removeSession calls made so far

orchVars  == <<isRunning, loop, stopping, runningAgents, snapshot, toStart,
               toStop, failed, passId, startCalls, streamsOpened>>
agentVars == <<agentIsRunning, session, startPc, stopPc, startResult,
               startError>>
provVars  == <<worktrees, sessions, assigned>>
histVars  == <<callLog, okLog, agentsBefore, prevSnapshot, prevFailed>>
callVars  == <<idlePc, idleLog, agentCalls, onCompleteCalls, onErrorCalls>>
monVars   == <<now, abortControllers, loops, monitorCalls>>
coreVars  == <<orchVars, agentVars, provVars, histVars, callVars>>
smVars    == <<sessionMap, remoteSessions, smCalls>>
vars      == <<coreVars, monVars, smVars>>

StartPcs == {"idle", "createWorktree", "createSession", "rollbackWorktree",
             "sendMessage", "rollbackSession", "rollbackSessionWorktree",
             "assignTask", "removeSession", "unassignTask", "removeWorktree"}
StopPcs  == {"idle", "removeSession", "unassignTask", "removeWorktree"}

\* The provider call that is awaited at a pc.
CallAt(pc) ==
  CASE pc = "createWorktree"          -> "create"
    [] pc = "createSession"           -> "createSession"
    [] pc = "rollbackWorktree"        -> "remove"
    [] pc = "sendMessage"             -> "sendMessage"
    [] pc = "rollbackSession"         -> "removeSession"
    [] pc = "rollbackSessionWorktree" -> "remove"
    [] pc = "assignTask"              -> "assignTask"
    [] pc = "removeSession"           -> "removeSession"
    [] pc = "unassignTask"            -> "unassignTask"
    [] pc = "removeWorktree"          -> "remove"

Issue(log, t, pc) == [log EXCEPT ![t] = Append(@, CallAt(pc))]

\* The provider call awaited for task t settled: it resolved iff `ok'.
Settle(t, ok) == okLog' = [okLog EXCEPT ![t] = Append(@, ok)]

TypeOK ==
  /\ isRunning \in BOOLEAN
  /\ loop \in {"idle", "awaitSnapshot", "reconciling"}
  /\ stopping \in BOOLEAN
  /\ runningAgents \in [Tasks -> Nat]
  /\ snapshot \in (SUBSET Tasks) \cup {NoSnapshot}
  /\ toStart \subseteq Tasks
  /\ toStop \subseteq Tasks
  /\ failed \subseteq Tasks
  /\ passId \in {0, 1}
  /\ startCalls \in 0..MaxStartCalls
  /\ streamsOpened \in 0..MaxStartCalls
  /\ agentIsRunning \in [Tasks -> BOOLEAN]
  /\ session \in [Tasks -> BOOLEAN]
  /\ startPc \in [Tasks -> StartPcs]
  /\ stopPc \in [Tasks -> StopPcs]
  /\ startResult \in [Tasks -> {"none", "pending", "resolved", "rejected"}]
  /\ startError \in [Tasks -> {"none", "create", "createSession", "sendMessage",
                               "assignTask", "remove", "removeSession"}]
  /\ worktrees \in [Tasks -> BOOLEAN]
  /\ sessions \in [Tasks -> BOOLEAN]
  /\ assigned \in [Tasks -> BOOLEAN]
  /\ idlePc \in [Tasks -> StopPcs]
  /\ idleLog \in [Tasks -> Seq({"removeSession", "unassignTask", "remove"})]
  /\ agentCalls \in 0..MaxAgentCalls
  /\ onCompleteCalls \in [Tasks -> Nat]
  /\ onErrorCalls \in [Tasks -> Nat]
  /\ now \in 0..MaxTime
  /\ abortControllers \in [SessionIds -> 0..MaxMonitorCalls]
  /\ monitorCalls \in 0..MaxMonitorCalls
  /\ Len(loops) <= monitorCalls
  /\ \A i \in 1..Len(loops) :
        /\ loops[i].sid \in SessionIds
        /\ loops[i].pc \in {"query", "delay", "rejecting", "done"}
        /\ loops[i].aborted \in BOOLEAN
        /\ loops[i].result \in {"none", "idle-detected", "timed-out",
                                "aborted", "rejected"}
        /\ loops[i].startTime \in 0..MaxTime
        /\ loops[i].called \in Nat
        /\ loops[i].retrying \in BOOLEAN
  /\ sessionMap \in [Tasks -> 0..MaxSessionCalls]
  /\ remoteSessions \subseteq 1..MaxSessionCalls
  /\ Len(smCalls) <= MaxSessionCalls
  /\ \A i \in 1..Len(smCalls) :
        /\ smCalls[i].op \in {"createSession", "removeSession"}
        /\ smCalls[i].taskId \in Tasks
        /\ smCalls[i].sessionId \in 0..MaxSessionCalls
        /\ smCalls[i].result \in {"pending", "resolved", "rejected"}

Init ==
  /\ isRunning = FALSE
  /\ loop = "idle"
  /\ stopping = FALSE
  /\ runningAgents = [t \in Tasks |-> 0]
  /\ snapshot = NoSnapshot
  /\ toStart = {}
  /\ toStop = {}
  /\ failed = {}
  /\ passId = 0
  /\ startCalls = 0
  /\ streamsOpened = 0
  /\ agentIsRunning = [t \in Tasks |-> FALSE]
  /\ session = [t \in Tasks |-> FALSE]
  /\ startPc = [t \in Tasks |-> "idle"]
  /\ stopPc = [t \in Tasks |-> "idle"]
  /\ startResult = [t \in Tasks |-> "none"]
  /\ startError = [t \in Tasks |-> "none"]
  /\ worktrees = [t \in Tasks |-> FALSE]
  /\ sessions = [t \in Tasks |-> FALSE]
  /\ assigned = [t \in Tasks |-> FALSE]
  /\ callLog = [t \in Tasks |-> <<>>]
  /\ okLog = [t \in Tasks |-> <<>>]
  /\ agentsBefore = [t \in Tasks |-> 0]
  /\ prevSnapshot = NoSnapshot
  /\ prevFailed = {}
  /\ idlePc = [t \in Tasks |-> "idle"]
  /\ idleLog = [t \in Tasks |-> <<>>]
  /\ agentCalls = 0
  /\ onCompleteCalls = [t \in Tasks |-> 0]
  /\ onErrorCalls = [t \in Tasks |-> 0]
  /\ now = 0
  /\ abortControllers = [sid \in SessionIds |-> NoLoop]
  /\ loops = <<>>
  /\ monitorCalls = 0
  /\ sessionMap = [t \in Tasks |-> NoSession]
  /\ remoteSessions = {}
  /\ smCalls = <<>>


(***************************************************************************)
(* Providers                                                               *)
(***************************************************************************)
\* WorktreeManager.create(path, "HEAD", {detach: true}): the worktree exists
\* afterwards iff the call resolved.
WorktreeCreate(wt, t, ok) == IF ok THEN [wt EXCEPT ![t] = TRUE] ELSE wt

\* WorktreeManager.remove(path, {force: true}).
WorktreeRemove(wt, t, ok) == IF ok THEN [wt EXCEPT ![t] = FALSE] ELSE wt

\* TaskManager.assignTask / unassignTask.
AssignTask(as, t, ok)   == IF ok THEN [as EXCEPT ![t] = TRUE] ELSE as
UnassignTask(as, t, ok) == IF ok THEN [as EXCEPT ![t] = FALSE] ELSE as

\* OpencodeSessionManager.createSession resolves iff no session is tracked
\* for the task and the remote create succeeded (`ok').
CreateSessionResolves(sm, t, ok) == ok /\ ~sm[t]

\* OpencodeSessionManager.removeSession rejects iff no session is tracked;
\* otherwise the session is untracked whatever the remote delete did.
RemoveSessionResolves(sm, t) == sm[t]
RemoveSession(sm, t) == [sm EXCEPT ![t] = FALSE]

(***************************************************************************)
(* ImplementorAgentImpl                                                    *)
(***************************************************************************)
\* A start() without its guard: it runs on a running agent as well.
StartGuard_Unchecked(running) == TRUE

\* start(): the guard `if (this._isRunning) return'.
StartGuard(running) == ~running

\* An inverted guard: stop() returns at once on a running agent.
StopGuard_Inverted(running) == ~running

\* stop(): the guard `if (!this._isRunning) return'.
StopGuard(running) == running

\* A cleanup() that never removes the session.
CleanupEntry_SkipsSession(hasSession) == "unassignTask"

\* cleanup(): the first provider call it issues.
CleanupEntry(hasSession) == IF hasSession THEN "removeSession" ELSE "unassignTask"

\* A cleanup() whose three steps share one try block: the first rejected
\* call ends it.
CleanupNext_OneTryBlock(pc, ok) ==
  IF ~ok THEN "idle"
  ELSE CASE pc = "removeSession"  -> "unassignTask"
         [] pc = "unassignTask"   -> "removeWorktree"
         [] pc = "removeWorktree" -> "idle"

\* A cleanup() that removes the worktree before unassigning, in one try
\* block: a failed removal skips the unassignment.
CleanupNext_WorktreeFirst(pc, ok) ==
  CASE pc = "removeSession"  -> "removeWorktree"
    [] pc = "removeWorktree" -> IF ok THEN "unassignTask" ELSE "idle"
    [] pc = "unassignTask"   -> "idle"

\* cleanup(): the call issued after the call at `pc' settled (resolved or
\* rejected, each step has its own try/catch); "idle" when cleanup returns.
CleanupNext(pc, ok) ==
  CASE pc = "removeSession"  -> "unassignTask"
    [] pc = "unassignTask"   -> "removeWorktree"
    [] pc = "removeWorktree" -> "idle"

\* cleanup(): the effect of the provider call awaited at `pc'.
CleanupSessions(pc, t) ==
  IF pc = "removeSession" /\ RemoveSessionResolves(sessions, t)
  THEN RemoveSession(sessions, t) ELSE sessions
CleanupAssigned(pc, t, ok) ==
  IF pc = "unassignTask" THEN UnassignTask(assigned, t, ok) ELSE assigned
CleanupWorktrees(pc, t, ok) ==
  IF pc = "removeWorktree" THEN WorktreeRemove(worktrees, t, ok) ELSE worktrees

\* cleanup(): whether the provider call awaited at `pc' resolved.
CleanupResolves(pc, t, ok) ==
  IF pc = "removeSession" THEN RemoveSessionResolves(sessions, t) ELSE ok

\* start() moves to its next await and issues the call awaited there.
StartMove(t, next) ==
  /\ startPc' = [startPc EXCEPT ![t] = next]
  /\ callLog' = IF next = "idle" THEN callLog ELSE Issue(callLog, t, next)

\* A createWorktree() whose catch only logs: start() goes on to the session.
AfterCreateWorktree_Swallowed(ok, hasSession) == "createSession"

\* start(): where it goes when worktreeManager.create settled; a rejection
\* is rethrown by createWorktree() and start()'s catch calls cleanup().
AfterCreateWorktree(ok, hasSession) ==
  IF ok THEN "createSession" ELSE CleanupEntry(hasSession)

\* A createSession() whose catch only logs: start() goes on to the prompt.
AfterCreateSession_Swallowed(ok) == "sendMessage"

\* start(): where it goes when sessionManager.createSession settled; the
\* catch of createSession() removes the worktree before it rethrows.
AfterCreateSession(ok) == IF ok THEN "sendMessage" ELSE "rollbackWorktree"

\* A sendInitialPrompt() whose catch removes the worktree only.
AfterSendMessage_WorktreeOnly(ok) ==
  IF ok THEN "assignTask" ELSE "rollbackSessionWorktree"

\* start(): where it goes when sessionManager.sendMessage settled; the catch
\* of sendInitialPrompt() removes the session first.
AfterSendMessage(ok) == IF ok THEN "assignTask" ELSE "rollbackSession"

\* The error a catch block of createSession() / sendInitialPrompt() ends
\* with: a compensating call that rejects throws out of the catch block and
\* replaces the error being handled (named here by the call it comes from).
RollbackError(pending, call, ok) == IF ok THEN pending ELSE call

\* The error start() handles after the provider call `call' settled.
StepError(errs, t, call, ok) == IF ok THEN errs ELSE [errs EXCEPT ![t] = call]

\* start(): worktreeManager.create settled.
CreateWorktreeDone(t, ok) ==
  /\ startPc[t] = "createWorktree"
  /\ worktrees' = WorktreeCreate(worktrees, t, ok)
  /\ StartMove(t, AfterCreateWorktree(ok, session[t]))
  /\ Settle(t, ok)
  /\ startError' = StepError(startError, t, "create", ok)
  /\ UNCHANGED <<orchVars, agentIsRunning, session, stopPc, sessions, assigned,
                 agentsBefore, prevSnapshot, prevFailed, callVars,
                 startResult, monVars, smVars>>

\* start(): sessionManager.createSession settled.
CreateSessionDone(t, ok) ==
  /\ startPc[t] = "createSession"
  /\ LET good == CreateSessionResolves(sessions, t, ok) IN
       /\ sessions' = IF good THEN [sessions EXCEPT ![t] = TRUE] ELSE sessions
       /\ session'  = IF good THEN [session EXCEPT ![t] = TRUE] ELSE session
       /\ StartMove(t, AfterCreateSession(good))
       /\ Settle(t, good)
       /\ startError' = StepError(startError, t, "createSession", good)
  /\ UNCHANGED <<orchVars, agentIsRunning, stopPc, worktrees, assigned,
                 agentsBefore, prevSnapshot, prevFailed, callVars,
                 startResult, monVars, smVars>>

\* createSession()'s catch: worktreeManager.remove settled, then the error
\* reaches start()'s catch, which calls cleanup().
RollbackWorktreeDone(t, ok) ==
  /\ startPc[t] = "rollbackWorktree"
  /\ worktrees' = WorktreeRemove(worktrees, t, ok)
  /\ StartMove(t, CleanupEntry(session[t]))
  /\ Settle(t, ok)
  /\ startError' =
       [startError EXCEPT ![t] = RollbackError(@, "remove", ok)]
  /\ UNCHANGED <<orchVars, agentIsRunning, session, stopPc, sessions, assigned,
                 agentsBefore, prevSnapshot, prevFailed, callVars,
                 startResult, monVars, smVars>>

\* sendInitialPrompt(): sessionManager.sendMessage settled.
SendMessageDone(t, ok) ==
  /\ startPc[t] = "sendMessage"
  /\ StartMove(t, AfterSendMessage(ok))
  /\ Settle(t, ok)
  /\ startError' = StepError(startError, t, "sendMessage", ok)
  /\ UNCHANGED <<orchVars, agentIsRunning, session, stopPc, provVars,
                 agentsBefore, prevSnapshot, prevFailed, callVars,
                 startResult, monVars, smVars>>

\* sendInitialPrompt()'s catch: sessionManager.removeSession settled; if it
\* rejected the worktree removal is skipped and start()'s catch runs cleanup().
RollbackSessionDone(t) ==
  /\ startPc[t] = "rollbackSession"
  /\ IF RemoveSessionResolves(sessions, t)
     THEN /\ sessions' = RemoveSession(sessions, t)
          /\ StartMove(t, "rollbackSessionWorktree")
     ELSE /\ sessions' = sessions
          /\ StartMove(t, CleanupEntry(session[t]))
  /\ Settle(t, RemoveSessionResolves(sessions, t))
  /\ startError' =
       [startError EXCEPT ![t] = RollbackError(@, "removeSession",
                                               RemoveSessionResolves(sessions, t))]
  /\ UNCHANGED <<orchVars, agentIsRunning, session, stopPc, worktrees, assigned,
                 agentsBefore, prevSnapshot, prevFailed, callVars,
                 startResult, monVars, smVars>>

\* sendInitialPrompt()'s catch: worktreeManager.remove settled.
RollbackSessionWorktreeDone(t, ok) ==
  /\ startPc[t] = "rollbackSessionWorktree"
  /\ worktrees' = WorktreeRemove(worktrees, t, ok)
  /\ StartMove(t, CleanupEntry(session[t]))
  /\ Settle(t, ok)
  /\ startError' =
       [startError EXCEPT ![t] = RollbackError(@, "remove", ok)]
  /\ UNCHANGED <<orchVars, agentIsRunning, session, stopPc, sessions, assigned,
                 agentsBefore, prevSnapshot, prevFailed, callVars,
                 startResult, monVars, smVars>>

(***************************************************************************)
(* Orchestrator bookkeeping (RunningAgent collection)                      *)
(***************************************************************************)
\* getRunningAgents(): the task ids that have a RunningAgent entry.
GetRunningAgents == {t \in Tasks : runningAgents[t] > 0}

\* A diff that starts an agent for every task of the snapshot, agented or not.
NeedsStart_NoFilter(S, agents) == S

\* Step 1 of the pass: tasks of the snapshot with no RunningAgent.
NeedsStart(S, agents) == {t \in S : agents[t] = 0}

\* A diff that stops every RunningAgent, in the snapshot or not.
NeedsStop_All(S, agents) == {t \in Tasks : agents[t] > 0}

\* A diff that never stops an agent.
NeedsStop_None(S, agents) == {}

\* Step 2 of the pass: RunningAgents whose task is absent from the snapshot.
NeedsStop(S, agents) == {t \in Tasks : agents[t] > 0 /\ t \notin S}

\* A settled start that never registers the agent.
OnStartSettled_Forgets(agents, t, errored) == agents

\* A start settled: on success a RunningAgent is registered, on failure
\* (the agent reported through onError) nothing is registered.
OnStartSettled(agents, t, errored) ==
  IF errored THEN agents ELSE [agents EXCEPT ![t] = @ + 1]

\* A stop settled: the RunningAgent is removed regardless of the outcome.
OnStopSettled(agents, t) == [agents EXCEPT ![t] = 0]

(***************************************************************************)
(* ImplementorAgentImpl, continued                                         *)
(***************************************************************************)
\* An assignTask() that rethrows: a rejected assignment fails the start.
AssignSettled_Fatal(ok) == IF ok THEN "started" ELSE "failed"

\* assignTask(): a rejected taskManager.assignTask is caught and only logged,
\* so start() goes on as after a resolved one.
AssignSettled(ok) == "started"

\* A start() whose catch block rethrows after the cleanup.
StartPromise_Rethrows(errored) == IF errored THEN "rejected" ELSE "resolved"

\* start(): how its promise settles.  Both the end of the try block and the
\* end of the catch block (cleanup, onError) fall off the function.
StartPromise(errored) == "resolved"

\* start(): taskManager.assignTask settled; start() resolves and the
\* orchestrator registers the agent.
AssignTaskDone(t, ok) ==
  /\ startPc[t] = "assignTask"
  /\ assigned' = AssignTask(assigned, t, ok)
  /\ Settle(t, ok)
  /\ startError' =
       StepError(startError, t, "assignTask", AssignSettled(ok) = "started")
  /\ IF AssignSettled(ok) = "started"
     THEN /\ StartMove(t, "idle")
          /\ runningAgents' = OnStartSettled(runningAgents, t, t \in failed)
          /\ startResult' = [startResult EXCEPT ![t] = StartPromise(FALSE)]
     ELSE /\ StartMove(t, CleanupEntry(session[t]))
          /\ runningAgents' = runningAgents
          /\ startResult' = startResult
  /\ UNCHANGED <<isRunning, loop, stopping, snapshot, toStart, toStop, failed,
                 passId, startCalls, streamsOpened, agentIsRunning, session,
                 stopPc, worktrees, sessions, agentsBefore, prevSnapshot,
                 prevFailed, callVars, monVars, smVars>>

\* An error that is reported once by the step that failed and once more by
\* start()'s catch.
OnError_Twice(calls, t) == [calls EXCEPT ![t] = @ + 2]

\* `this.onError(this.taskId, error)': one invocation of the callback.
OnError(calls, t) == [calls EXCEPT ![t] = @ + 1]

\* A catch block that swallows the error without reporting it.
ReportError_Swallowed(errs, t) == errs

\* start()'s catch: `this.onError(this.taskId, error)'; the orchestrator's
\* callback records the task as failed.
ReportError(errs, t) == errs \cup {t}

\* start()'s catch: one call of cleanup() settled.  After the last one
\* _isRunning is cleared, onError is invoked and start() resolves.
StartCleanupStep(t, ok) ==
  /\ startPc[t] \in {"removeSession", "unassignTask", "removeWorktree"}
  /\ sessions'  = CleanupSessions(startPc[t], t)
  /\ assigned'  = CleanupAssigned(startPc[t], t, ok)
  /\ worktrees' = CleanupWorktrees(startPc[t], t, ok)
  /\ StartMove(t, CleanupNext(startPc[t], ok))
  /\ Settle(t, CleanupResolves(startPc[t], t, ok))
  /\ IF CleanupNext(startPc[t], ok) = "idle"
     THEN /\ agentIsRunning' = [agentIsRunning EXCEPT ![t] = FALSE]
          /\ failed' = ReportError(failed, t)
          /\ onErrorCalls' = OnError(onErrorCalls, t)
          /\ runningAgents' = OnStartSettled(runningAgents, t, t \in failed')
          /\ startResult' = [startResult EXCEPT ![t] = StartPromise(TRUE)]
     ELSE UNCHANGED <<agentIsRunning, failed, onErrorCalls, runningAgents,
                      startResult>>
  /\ UNCHANGED <<isRunning, loop, stopping, snapshot, toStart, toStop, passId,
                 startCalls, streamsOpened, session, stopPc, agentsBefore,
                 prevSnapshot, prevFailed, idlePc, idleLog, agentCalls,
                 onCompleteCalls,
                 startError, monVars, smVars>>

\* stop(): one call of cleanup() settled.  After the last one _isRunning is
\* cleared, stop() resolves and the orchestrator removes the RunningAgent.
StopCleanupStep(t, ok) ==
  /\ stopPc[t] # "idle"
  /\ sessions'  = CleanupSessions(stopPc[t], t)
  /\ assigned'  = CleanupAssigned(stopPc[t], t, ok)
  /\ worktrees' = CleanupWorktrees(stopPc[t], t, ok)
  /\ stopPc' = [stopPc EXCEPT ![t] = CleanupNext(stopPc[t], ok)]
  /\ Settle(t, CleanupResolves(stopPc[t], t, ok))
  /\ callLog' = IF CleanupNext(stopPc[t], ok) = "idle" THEN callLog
                ELSE Issue(callLog, t, CleanupNext(stopPc[t], ok))
  /\ IF CleanupNext(stopPc[t], ok) = "idle"
     THEN /\ agentIsRunning' = [agentIsRunning EXCEPT ![t] = FALSE]
          /\ runningAgents' = OnStopSettled(runningAgents, t)
     ELSE UNCHANGED <<agentIsRunning, runningAgents>>
  /\ UNCHANGED <<isRunning, loop, stopping, snapshot, toStart, toStop, failed,
                 passId, startCalls, streamsOpened, session, startPc,
                 agentsBefore, prevSnapshot, prevFailed, callVars,
                 startResult, startError, monVars, smVars>>

(***************************************************************************)
(* Orchestrator                                                            *)
(***************************************************************************)
\* A start() without the already-running check.
AlreadyRunning_Unchecked == FALSE

\* start(): the already-running check.
AlreadyRunning == isRunning

\* A loop that takes the next snapshot while the previous pass is in flight.
CanTakeSnapshot_Eager == isRunning /\ loop # "idle"

\* The loop can take the next snapshot only when the previous pass is over.
CanTakeSnapshot == isRunning /\ loop = "awaitSnapshot"

\* A loop that an error of one task's start terminates.
LoopAfterPass_Crashes(errs) == IF errs # {} THEN "idle" ELSE "awaitSnapshot"

\* Where the loop goes when a pass is over: a failed start or teardown of a
\* task is logged and the loop awaits the next snapshot.
LoopAfterPass(errs) == "awaitSnapshot"

\* start(): no-op while running; otherwise opens the task stream and begins
\* to consume it.
OrchestratorStart ==
  /\ startCalls < MaxStartCalls
  /\ ~stopping
  /\ startCalls' = startCalls + 1
  /\ IF AlreadyRunning
     THEN UNCHANGED <<isRunning, loop, streamsOpened>>
     ELSE /\ isRunning' = TRUE
          /\ loop' = "awaitSnapshot"
          /\ streamsOpened' = streamsOpened + 1
  /\ UNCHANGED <<stopping, runningAgents, snapshot, toStart, toStop, failed,
                 passId, agentVars, provVars, histVars, callVars, monVars,
                 smVars>>

\* The loop receives the next snapshot S and computes the diff against the
\* RunningAgent collection.
Snapshot(S) ==
  /\ CanTakeSnapshot
  /\ loop' = "reconciling"
  /\ snapshot' = S
  /\ toStart' = NeedsStart(S, runningAgents)
  /\ toStop' = NeedsStop(S, runningAgents)
  /\ failed' = {}
  /\ onErrorCalls' = [t \in Tasks |-> 0]
  /\ passId' = 1 - passId
  /\ callLog' = [t \in Tasks |-> <<>>]
  /\ okLog' = [t \in Tasks |-> <<>>]
  /\ agentsBefore' = runningAgents
  /\ prevSnapshot' = snapshot
  /\ prevFailed' = failed
  /\ UNCHANGED <<isRunning, stopping, runningAgents, startCalls, streamsOpened,
                 agentVars, provVars, idlePc, idleLog, agentCalls,
                 onCompleteCalls,
                 monVars, smVars>>

\* The pass issues the start for one task: a new ImplementorAgentImpl is
\* created and its start() runs up to the first await (worktree create).
DispatchStart(t) ==
  /\ t \in toStart
  /\ toStart' = toStart \ {t}
  /\ IF StartGuard(FALSE)
     THEN /\ agentIsRunning' = [agentIsRunning EXCEPT ![t] = TRUE]
          /\ session' = [session EXCEPT ![t] = FALSE]
          /\ StartMove(t, "createWorktree")
          /\ runningAgents' = runningAgents
          /\ startResult' = [startResult EXCEPT ![t] = "pending"]
          /\ startError' = [startError EXCEPT ![t] = "none"]
     ELSE /\ agentIsRunning' = [agentIsRunning EXCEPT ![t] = FALSE]
          /\ session' = [session EXCEPT ![t] = FALSE]
          /\ StartMove(t, "idle")
          /\ runningAgents' = OnStartSettled(runningAgents, t, FALSE)
          /\ startResult' = [startResult EXCEPT ![t] = StartPromise(FALSE)]
          /\ startError' = startError
  /\ UNCHANGED <<isRunning, loop, stopping, snapshot, toStop, failed, passId,
                 startCalls, streamsOpened, stopPc, provVars, okLog,
                 agentsBefore, prevSnapshot, prevFailed, callVars, monVars,
                 smVars>>

\* The pass (or stop()) issues the stop for one RunningAgent: the agent's
\* stop() runs up to the first await of cleanup().
DispatchStop(t) ==
  /\ t \in toStop
  /\ toStop' = toStop \ {t}
  /\ IF StopGuard(agentIsRunning[t])
     THEN /\ stopPc' = [stopPc EXCEPT ![t] = CleanupEntry(session[t])]
          /\ callLog' = Issue(callLog, t, CleanupEntry(session[t]))
          /\ runningAgents' = runningAgents
     ELSE /\ UNCHANGED <<stopPc, callLog>>
          /\ runningAgents' = OnStopSettled(runningAgents, t)
  /\ UNCHANGED <<isRunning, loop, stopping, snapshot, toStart, failed, passId,
                 startCalls, streamsOpened, agentIsRunning, session, startPc,
                 provVars, okLog, agentsBefore, prevSnapshot, prevFailed, callVars,
                 startResult, startError, monVars, smVars>>

\* Every start/stop of the pass was issued and has settled: the loop awaits
\* the next snapshot.
PassEnd ==
  /\ loop = "reconciling"
  /\ toStart = {} /\ toStop = {}
  /\ \A t \in Tasks : startPc[t] = "idle" /\ stopPc[t] = "idle"
  /\ loop' = LoopAfterPass(failed)
  /\ UNCHANGED <<isRunning, stopping, runningAgents, snapshot, toStart, toStop,
                 failed, passId, startCalls, streamsOpened, agentVars, provVars,
                 histVars, callVars, monVars, smVars>>

\* stop(): halts consumption and tears down every RunningAgent.  It is
\* called while the loop awaits a snapshot (the behaviour of stop() during a
\* pass in flight is not defined by the specification).
OrchestratorStop ==
  /\ isRunning
  /\ loop = "awaitSnapshot"
  /\ isRunning' = FALSE
  /\ loop' = "idle"
  /\ stopping' = TRUE
  /\ toStop' = GetRunningAgents
  /\ toStart' = {}
  /\ failed' = {}
  /\ onErrorCalls' = [t \in Tasks |-> 0]
  /\ snapshot' = NoSnapshot
  /\ prevSnapshot' = NoSnapshot
  /\ prevFailed' = {}
  /\ callLog' = [t \in Tasks |-> <<>>]
  /\ okLog' = [t \in Tasks |-> <<>>]
  /\ agentsBefore' = runningAgents
  /\ UNCHANGED <<runningAgents, passId, startCalls, streamsOpened, agentVars,
                 provVars, idlePc, idleLog, agentCalls, onCompleteCalls,
                 monVars, smVars>>

\* stop() returns once every teardown has settled.
StopReturn ==
  /\ stopping
  /\ toStop = {}
  /\ \A t \in Tasks : stopPc[t] = "idle"
  /\ stopping' = FALSE
  /\ UNCHANGED <<isRunning, loop, runningAgents, snapshot, toStart, toStop,
                 failed, passId, startCalls, streamsOpened, agentVars, provVars,
                 histVars, callVars, monVars, smVars>>

Next ==
  \/ OrchestratorStart
  \/ OrchestratorStop
  \/ StopReturn
  \/ \E S \in SUBSET Tasks : Snapshot(S)
  \/ PassEnd
  \/ \E t \in Tasks : DispatchStart(t)
  \/ \E t \in Tasks : DispatchStop(t)
  \/ \E t \in Tasks, ok \in BOOLEAN : CreateWorktreeDone(t, ok)
  \/ \E t \in Tasks, ok \in BOOLEAN : CreateSessionDone(t, ok)
  \/ \E t \in Tasks, ok \in BOOLEAN : RollbackWorktreeDone(t, ok)
  \/ \E t \in Tasks, ok \in BOOLEAN : SendMessageDone(t, ok)
  \/ \E t \in Tasks : RollbackSessionDone(t)
  \/ \E t \in Tasks, ok \in BOOLEAN : RollbackSessionWorktreeDone(t, ok)
  \/ \E t \in Tasks, ok \in BOOLEAN : AssignTaskDone(t, ok)
  \/ \E t \in Tasks, ok \in BOOLEAN : StartCleanupStep(t, ok)
  \/ \E t \in Tasks, ok \in BOOLEAN : StopCleanupStep(t, ok)

Spec == Init /\ [][Next]_vars

(***************************************************************************)
(* One ImplementorAgentImpl under arbitrary calls (AgentSpec)              *)
(*                                                                         *)
(* start(), stop() and handleSessionIdle() are called on the agent of one  *)
(* task in any order, also while an earlier call is suspended at a provider*)
(* call.  At most one call of each method is in flight at a time.  The     *)
(* logs hold the calls issued since the most recent call on the agent.     *)
(***************************************************************************)
\* The task of the agent under test.
AgentTask == "t1"

NoLog == [t \in Tasks |-> <<>>]

\* start() is called on the agent, while no start() is in flight or, on a
\* running agent, also while one is: that call returns at its guard and the
\* promise of the start() in flight stays pending.
AgentStart(t) ==
  /\ agentCalls < MaxAgentCalls
  /\ startPc[t] = "idle" \/ ~StartGuard(agentIsRunning[t])
  /\ agentCalls' = agentCalls + 1
  /\ okLog' = NoLog
  /\ IF StartGuard(agentIsRunning[t])
     THEN /\ agentIsRunning' = [agentIsRunning EXCEPT ![t] = TRUE]
          /\ startPc' = [startPc EXCEPT ![t] = "createWorktree"]
          /\ callLog' = Issue(NoLog, t, "createWorktree")
          /\ startResult' = [startResult EXCEPT ![t] = "pending"]
          /\ startError' = [startError EXCEPT ![t] = "none"]
     ELSE /\ callLog' = NoLog
          /\ startResult' = IF startPc[t] = "idle"
                            THEN [startResult EXCEPT ![t] = StartPromise(FALSE)]
                            ELSE startResult
          /\ startError' = startError
          /\ UNCHANGED <<agentIsRunning, startPc>>
  /\ UNCHANGED <<orchVars, session, stopPc, provVars, agentsBefore,
                 prevSnapshot, prevFailed, idlePc, idleLog, onCompleteCalls,
                 onErrorCalls, monVars, smVars>>

\* stop() is called on the agent.
AgentStop(t) ==
  /\ agentCalls < MaxAgentCalls
  /\ stopPc[t] = "idle"
  /\ agentCalls' = agentCalls + 1
  /\ okLog' = NoLog
  /\ IF StopGuard(agentIsRunning[t])
     THEN /\ stopPc' = [stopPc EXCEPT ![t] = CleanupEntry(session[t])]
          /\ callLog' = Issue(NoLog, t, CleanupEntry(session[t]))
     ELSE /\ callLog' = NoLog
          /\ UNCHANGED stopPc
  /\ UNCHANGED <<orchVars, agentIsRunning, session, startPc, provVars,
                 agentsBefore, prevSnapshot, prevFailed, idlePc, idleLog,
                 onCompleteCalls, onErrorCalls, startResult, startError,
                 monVars, smVars>>

\* handleSessionIdle() is called on the agent: it has no guard and awaits
\* cleanup() at once.
HandleSessionIdle(t) ==
  /\ agentCalls < MaxAgentCalls
  /\ idlePc[t] = "idle"
  /\ agentCalls' = agentCalls + 1
  /\ okLog' = NoLog
  /\ idlePc' = [idlePc EXCEPT ![t] = CleanupEntry(session[t])]
  /\ idleLog' = Issue([idleLog EXCEPT ![t] = <<>>], t, CleanupEntry(session[t]))
  /\ callLog' = Issue(NoLog, t, CleanupEntry(session[t]))
  /\ UNCHANGED <<orchVars, agentVars, provVars, agentsBefore, prevSnapshot,
                 prevFailed, onCompleteCalls, onErrorCalls, monVars, smVars>>

\* handleSessionIdle(): one call of cleanup() settled.  After the last one
\* _isRunning is cleared and onComplete (a session is set) or onError is
\* invoked.
IdleCleanupStep(t, ok) ==
  /\ idlePc[t] # "idle"
  /\ sessions'  = CleanupSessions(idlePc[t], t)
  /\ assigned'  = CleanupAssigned(idlePc[t], t, ok)
  /\ worktrees' = CleanupWorktrees(idlePc[t], t, ok)
  /\ idlePc' = [idlePc EXCEPT ![t] = CleanupNext(idlePc[t], ok)]
  /\ Settle(t, CleanupResolves(idlePc[t], t, ok))
  /\ callLog' = IF CleanupNext(idlePc[t], ok) = "idle" THEN callLog
                ELSE Issue(callLog, t, CleanupNext(idlePc[t], ok))
  /\ idleLog' = IF CleanupNext(idlePc[t], ok) = "idle"
                THEN [idleLog EXCEPT ![t] = <<>>]
                ELSE Issue(idleLog, t, CleanupNext(idlePc[t], ok))
  /\ IF CleanupNext(idlePc[t], ok) = "idle"
     THEN /\ agentIsRunning' = [agentIsRunning EXCEPT ![t] = FALSE]
          /\ onCompleteCalls' =
               IF session[t] THEN [onCompleteCalls EXCEPT ![t] = @ + 1]
               ELSE onCompleteCalls
          /\ failed' = IF session[t] THEN failed ELSE ReportError(failed, t)
          /\ onErrorCalls' =
               IF session[t] THEN onErrorCalls ELSE OnError(onErrorCalls, t)
     ELSE UNCHANGED <<agentIsRunning, onCompleteCalls, onErrorCalls, failed>>
  /\ UNCHANGED <<isRunning, loop, stopping, runningAgents, snapshot, toStart,
                 toStop, passId, startCalls, streamsOpened, session, startPc,
                 stopPc, agentsBefore, prevSnapshot, prevFailed, agentCalls,
                 startResult, startError, monVars, smVars>>

AgentNext ==
  \/ AgentStart(AgentTask)
  \/ AgentStop(AgentTask)
  \/ HandleSessionIdle(AgentTask)
  \/ \E ok \in BOOLEAN : CreateWorktreeDone(AgentTask, ok)
  \/ \E ok \in BOOLEAN : CreateSessionDone(AgentTask, ok)
  \/ \E ok \in BOOLEAN : RollbackWorktreeDone(AgentTask, ok)
  \/ \E ok \in BOOLEAN : SendMessageDone(AgentTask, ok)
  \/ RollbackSessionDone(AgentTask)
  \/ \E ok \in BOOLEAN : RollbackSessionWorktreeDone(AgentTask, ok)
  \/ \E ok \in BOOLEAN : AssignTaskDone(AgentTask, ok)
  \/ \E ok \in BOOLEAN : StartCleanupStep(AgentTask, ok)
  \/ \E ok \in BOOLEAN : StopCleanupStep(AgentTask, ok)
  \/ \E ok \in BOOLEAN : IdleCleanupStep(AgentTask, ok)

AgentSpec == Init /\ [][AgentNext]_vars

\* The same agent under fewer calls, for the properties of a single call.
AgentShortNext ==
  \/ agentCalls < MaxShortCalls /\ AgentStart(AgentTask)
  \/ agentCalls < MaxShortCalls /\ AgentStop(AgentTask)
  \/ agentCalls < MaxShortCalls /\ HandleSessionIdle(AgentTask)
  \/ \E ok \in BOOLEAN : CreateWorktreeDone(AgentTask, ok)
  \/ \E ok \in BOOLEAN : CreateSessionDone(AgentTask, ok)
  \/ \E ok \in BOOLEAN : RollbackWorktreeDone(AgentTask, ok)
  \/ \E ok \in BOOLEAN : SendMessageDone(AgentTask, ok)
  \/ RollbackSessionDone(AgentTask)
  \/ \E ok \in BOOLEAN : RollbackSessionWorktreeDone(AgentTask, ok)
  \/ \E ok \in BOOLEAN : AssignTaskDone(AgentTask, ok)
  \/ \E ok \in BOOLEAN : StartCleanupStep(AgentTask, ok)
  \/ \E ok \in BOOLEAN : StopCleanupStep(AgentTask, ok)
  \/ \E ok \in BOOLEAN : IdleCleanupStep(AgentTask, ok)

AgentShortSpec == Init /\ [][AgentShortNext]_vars

(***************************************************************************)
(* ReviewAgent: the completion monitor (MonitorSpec)                       *)
(*                                                                         *)
(* One step per resumption of monitorForIdle: it runs up to its next await *)
(* (the status query or the delay).  startMonitoring, stopMonitoring and   *)
(* stopAllMonitoring are called at any moment.  Time is discrete; a status *)
(* query (a synchronous read of the session manager's map) and a pending   *)
(* rejection complete before the clock advances, and a timer fires when it *)
(* is due.                                                                 *)
(***************************************************************************)
\* isMonitoring(sessionId)
IsMonitoring(sid) == abortControllers[sid] # NoLoop

\* getMonitoredCount()
GetMonitoredCount == Cardinality({sid \in SessionIds : IsMonitoring(sid)})

\* A startMonitoring without the has() check.
AlreadyMonitoring_Unchecked(ctrl, sid) == FALSE

\* startMonitoring(): `this.abortControllers.has(sessionId)'.
AlreadyMonitoring(ctrl, sid) == ctrl[sid] # NoLoop

\* A timeout measured against twice the configured value.
TimedOut_Doubled(elapsed) == elapsed > 2 * TimeoutMs

\* A loop without the timeout check.
TimedOut_Never(elapsed) == FALSE

\* monitorForIdle(): `Date.now() - startTime > this.timeoutMs'.
TimedOut(elapsed) == elapsed > TimeoutMs

\* A checkSessionIdle() that takes only a stopped session for idle, not one
\* that is absent from the live session set.
CheckSessionIdle_StoppedOnly(report) == report = "stopped"

\* A checkSessionIdle() whose catch block answers true.
CheckSessionIdle_ErrorIsIdle(report) == report \in {"stopped", "absent", "error"}

\* checkSessionIdle(): the session is absent from getAllSessions() or its
\* status is "stopped"; a query error is logged and gives false.
StatusReports == {"running", "stopped", "absent", "error"}
CheckSessionIdle(report) == report \in {"stopped", "absent"}

\* A polling loop that ended with `result'.
Ended(l, result) ==
  [l EXCEPT !.pc = "done", !.result = result, !.due = 0, !.retrying = FALSE]

\* monitorForIdle(): the top of the while loop, reached at time `at': the
\* loop ends when aborted or timed out, else it issues the status query.
LoopTop(l, at) ==
  IF l.aborted THEN Ended(l, "aborted")
  ELSE IF TimedOut(at - l.startTime) THEN Ended(l, "timed-out")
  ELSE [l EXCEPT !.pc = "query", !.due = 0, !.retrying = FALSE]

\* A delete that leaves the entry in the map.
DeleteController_Kept(ctrl, sid) == ctrl

\* A delete that clears the whole map.
DeleteController_Clear(ctrl, sid) == [s \in SessionIds |-> NoLoop]

\* `this.abortControllers.delete(sessionId)'.
DeleteController(ctrl, sid) == [ctrl EXCEPT ![sid] = NoLoop]

\* startMonitoring(session): no-op when the session has a controller, else
\* stores a new controller and runs monitorForIdle up to its first await.
StartMonitoring(sid) ==
  /\ monitorCalls < MaxMonitorCalls
  /\ monitorCalls' = monitorCalls + 1
  /\ IF AlreadyMonitoring(abortControllers, sid)
     THEN UNCHANGED <<abortControllers, loops>>
     ELSE LET l == LoopTop([sid |-> sid, pc |-> "query", aborted |-> FALSE,
                            startTime |-> now, due |-> 0, result |-> "none",
                            called |-> 0, retrying |-> FALSE], now)
          IN /\ loops' = Append(loops, l)
             /\ abortControllers' =
                  IF l.pc = "done" THEN DeleteController(abortControllers, sid)
                  ELSE [abortControllers EXCEPT ![sid] = Len(loops) + 1]
  /\ UNCHANGED <<coreVars, now, smVars>>

\* AbortController.abort() for loop i: the signal is set; a loop suspended
\* in delay() has its timer cleared and its promise rejected.
Abort(ls, i) ==
  [ls EXCEPT ![i] = [@ EXCEPT !.aborted = TRUE,
                              !.pc = IF @ = "delay" THEN "rejecting" ELSE @,
                              !.due = 0, !.retrying = FALSE]]

\* stopMonitoring(sessionId): aborts and deletes the controller, if any.
StopMonitoring(sid) ==
  /\ monitorCalls < MaxMonitorCalls
  /\ monitorCalls' = monitorCalls + 1
  /\ IF IsMonitoring(sid)
     THEN /\ loops' = Abort(loops, abortControllers[sid])
          /\ abortControllers' = DeleteController(abortControllers, sid)
     ELSE UNCHANGED <<abortControllers, loops>>
  /\ UNCHANGED <<coreVars, now, smVars>>

\* stopAllMonitoring(): aborts every controller and clears the map.
StopAllMonitoring ==
  /\ monitorCalls < MaxMonitorCalls
  /\ monitorCalls' = monitorCalls + 1
  /\ loops' = [i \in 1..Len(loops) |->
                 IF \E sid \in SessionIds : abortControllers[sid] = i
                 THEN Abort(loops, i)[i] ELSE loops[i]]
  /\ abortControllers' = [sid \in SessionIds |-> NoLoop]
  /\ UNCHANGED <<coreVars, now, smVars>>

\* A loop that invokes the review agent twice for one idle report.
InvokeReviewAgent_Twice(l) == [l EXCEPT !.called = @ + 2]

\* `await this.invokeReviewAgent(session)': one invocation of the completion
\* callback by the loop l.
InvokeReviewAgent(l) == [l EXCEPT !.called = @ + 1]

\* monitorForIdle(): the status query of loop i returned `report'.  Idle:
\* the controller of the session is deleted and the review agent invoked.
\* Not idle: delay() is awaited; on an aborted signal it rejects at once and
\* the catch block deletes the controller of the session.  `retrying' tells
\* that the loop sleeps after a query that failed (the error is logged).
QueryDone(i, report) ==
  /\ i \in 1..Len(loops)
  /\ loops[i].pc = "query"
  /\ IF CheckSessionIdle(report)
     THEN /\ abortControllers' = DeleteController(abortControllers, loops[i].sid)
          /\ loops' = [loops EXCEPT ![i] =
                         Ended(InvokeReviewAgent(@), "idle-detected")]
     ELSE IF loops[i].aborted
     THEN /\ abortControllers' = DeleteController(abortControllers, loops[i].sid)
          /\ loops' = [loops EXCEPT ![i] = Ended(@, "rejected")]
     ELSE /\ abortControllers' = abortControllers
          /\ loops' = [loops EXCEPT ![i] =
                         [@ EXCEPT !.pc = "delay", !.due = now + PollIntervalMs,
                                   !.retrying = (report = "error")]]
  /\ UNCHANGED <<coreVars, now, monitorCalls, smVars>>

\* monitorForIdle(): the timer of delay() fired; the loop is at its top.
DelayDone(i) ==
  /\ i \in 1..Len(loops)
  /\ loops[i].pc = "delay"
  /\ now >= loops[i].due
  /\ loops' = [loops EXCEPT ![i] = LoopTop(@, now)]
  /\ abortControllers' =
       IF LoopTop(loops[i], now).result = "timed-out"
       THEN DeleteController(abortControllers, loops[i].sid)
       ELSE abortControllers
  /\ UNCHANGED <<coreVars, now, monitorCalls, smVars>>

\* monitorForIdle(): the rejection of an aborted delay() reaches the catch
\* block, which deletes the controller of the session and rethrows.
DelayRejected(i) ==
  /\ i \in 1..Len(loops)
  /\ loops[i].pc = "rejecting"
  /\ abortControllers' = DeleteController(abortControllers, loops[i].sid)
  /\ loops' = [loops EXCEPT ![i] = Ended(@, "rejected")]
  /\ UNCHANGED <<coreVars, now, monitorCalls, smVars>>

\* Time passes while a loop sleeps in delay() and nothing is due.
Tick ==
  /\ now < MaxTime
  /\ \E i \in 1..Len(loops) : loops[i].pc = "delay"
  /\ \A i \in 1..Len(loops) :
        /\ loops[i].pc \notin {"query", "rejecting"}
        /\ loops[i].pc = "delay" => now < loops[i].due
  /\ now' = now + 1
  /\ UNCHANGED <<coreVars, abortControllers, loops, monitorCalls, smVars>>

MonitorNext ==
  \/ \E sid \in SessionIds : StartMonitoring(sid)
  \/ \E sid \in SessionIds : StopMonitoring(sid)
  \/ StopAllMonitoring
  \/ \E i \in 1..MaxMonitorCalls, report \in StatusReports : QueryDone(i, report)
  \/ \E i \in 1..MaxMonitorCalls : DelayDone(i)
  \/ \E i \in 1..MaxMonitorCalls : DelayRejected(i)
  \/ Tick

MonitorSpec == Init /\ [][MonitorNext]_vars

(***************************************************************************)
(* Properties                                                              *)
(***************************************************************************)
\* The provider call `c' was issued for task t since the pass / stop() began.
Called(t, c) == \E i \in 1..Len(callLog[t]) : callLog[t][i] = c

\* No agent operation is in flight for task t.
Settled(t) == startPc[t] = "idle" /\ stopPc[t] = "idle"

\* C1: at every reachable state, whatever the snapshots and the interleaving
\* of the starts and stops of a pass, there is at most one RunningAgent entry
\* per taskId, and no further agent is being started for a task that has one.
C1_AtMostOneAgentPerTask ==
  \A t \in Tasks :
     /\ runningAgents[t] <= 1
     /\ runningAgents[t] = 1 => startPc[t] = "idle"

\* C1 witness: a pass over a snapshot that contains an already agented task
\* is in flight while another task's start is suspended at a provider call.
C1_Witness ==
  /\ loop = "reconciling"
  /\ snapshot = {"t1", "t2"}
  /\ agentsBefore["t1"] = 1 /\ runningAgents["t1"] = 1
  /\ startPc["t2"] = "sendMessage"

C3_ConvergesToSnapshot ==
  (loop = "awaitSnapshot" /\ snapshot # NoSnapshot /\ failed = {}) =>
     GetRunningAgents = snapshot

\* C3 witness: a pass started t1 and stopped t2 (agented before, absent from
\* the snapshot) and is over.
C3_Witness ==
  /\ loop = "awaitSnapshot"
  /\ snapshot = {"t1"}
  /\ failed = {}
  /\ agentsBefore["t2"] = 1 /\ agentsBefore["t1"] = 0
  /\ GetRunningAgents = {"t1"}

\* C4: a task whose start failed has no RunningAgent (nor has any task whose
\* agent is not running), and when the next snapshot still contains the task
\* its start is derived and issued again.
C4_FailedStartNotRegisteredAndRetried ==
  \A t \in Tasks :
     /\ (t \in failed \/ ~agentIsRunning[t]) => runningAgents[t] = 0
     /\ (snapshot # NoSnapshot /\ t \in prevFailed /\ t \in snapshot) =>
           \/ t \in toStart
           \/ (callLog[t] # <<>> /\ Head(callLog[t]) = "create")

\* C4 witness: the start of t1 failed in the previous pass, the next snapshot
\* contained t1 again and this time its start succeeded.
C4_Witness ==
  /\ loop = "awaitSnapshot"
  /\ "t1" \in prevFailed /\ "t1" \in snapshot
  /\ "t1" \notin failed
  /\ runningAgents["t1"] = 1
  /\ Called("t1", "assignTask")

\* C5: when a pass is over, every RunningAgent whose task was absent from the
\* snapshot has been stopped (unassignTask was called) and removed, whatever
\* the outcome of the teardown steps; no entry is removed before its stop
\* was issued.
C5_AbsentAgentStoppedAndRemoved ==
  \A t \in Tasks :
     (snapshot # NoSnapshot /\ agentsBefore[t] > 0 /\ t \notin snapshot) =>
        /\ (loop = "awaitSnapshot" =>
               runningAgents[t] = 0 /\ Called(t, "unassignTask"))
        /\ (runningAgents[t] = 0 => callLog[t] # <<>>)

\* C5 witness: the stop of t1's agent is over, its worktree removal failed
\* (the worktree is still there), and the agent was removed all the same.
C5_Witness ==
  /\ loop = "awaitSnapshot"
  /\ snapshot = {} /\ agentsBefore["t1"] = 1
  /\ worktrees["t1"]
  /\ Called("t1", "remove") /\ Called("t1", "unassignTask")
  /\ runningAgents["t1"] = 0

\* C6: during and after a pass, a RunningAgent whose task is in the snapshot
\* is untouched: no start or stop is derived or in flight for it, no provider
\* call is issued for it, and its entry and its agent stay as they were.
C6_PresentAgentUntouched ==
  \A t \in Tasks :
     (snapshot # NoSnapshot /\ agentsBefore[t] > 0 /\ t \in snapshot) =>
        /\ t \notin toStart /\ t \notin toStop
        /\ Settled(t)
        /\ callLog[t] = <<>>
        /\ runningAgents[t] = agentsBefore[t]
        /\ agentIsRunning[t]

\* C6 witness: t1 is agented and stays in the snapshot while, in the same
\* pass, the agent of t2 (removed from the snapshot) is being torn down.
C6_Witness ==
  /\ loop = "reconciling"
  /\ snapshot = {"t1"}
  /\ agentsBefore["t1"] = 1 /\ agentsBefore["t2"] = 1
  /\ stopPc["t2"] = "removeWorktree"
  /\ runningAgents["t1"] = 1

\* C7: a diff is computed only when every start and stop derived from the
\* previous snapshot has been issued (and none is in flight).
C7_PassesTotallyOrdered ==
  [][passId' # passId =>
       /\ toStart = {} /\ toStop = {}
       /\ \A t \in Tasks : Settled(t)]_vars

\* C7 witness: within one pass the start of t1 and the stop of t2 are both
\* in flight, t2's stop having been issued and advanced before t1's start
\* did its first step.
C7_Witness ==
  /\ loop = "reconciling"
  /\ startPc["t1"] = "createWorktree"
  /\ stopPc["t2"] = "removeWorktree"

\* C8: once stop() has returned, isRunning() is false, the loop no longer
\* consumes snapshots, unassignTask was called for every RunningAgent that
\* existed when stop() was called, and getRunningAgents() is empty.
C8_StopTearsDownEveryAgent ==
  (streamsOpened > 0 /\ ~stopping /\ loop = "idle") =>
     /\ ~isRunning
     /\ GetRunningAgents = {}
     /\ \A t \in Tasks : agentsBefore[t] > 0 => Called(t, "unassignTask")

\* C8 witness: stop() has returned after tearing down the agents of t1 and
\* t2, with the worktree removal of t1 having failed.
C8_Witness ==
  /\ streamsOpened > 0 /\ ~stopping /\ loop = "idle"
  /\ agentsBefore["t1"] = 1 /\ agentsBefore["t2"] = 1
  /\ worktrees["t1"] /\ ~worktrees["t2"]
  /\ GetRunningAgents = {}

\* C9: a start() call made while the orchestrator is running opens no task
\* stream, issues no start, stop or provider call and changes neither the
\* RunningAgent collection nor the pass in flight.
C9_StartWhileRunningIsNoOp ==
  [][(startCalls' # startCalls /\ isRunning) =>
       UNCHANGED <<isRunning, loop, stopping, streamsOpened, runningAgents,
                   snapshot, toStart, toStop, failed, passId, callLog,
                   agentVars, provVars>>]_vars

\* C9 witness: start() was called twice, only one stream was opened (the
\* second call came while running), and the pass in flight goes on.
C9_Witness ==
  /\ startCalls = 2 /\ streamsOpened = 1
  /\ isRunning /\ loop = "reconciling"
  /\ startPc["t1"] = "sendMessage"

\* The teardown of t's agent in the current pass left the worktree or the
\* assignment behind: one of its steps failed.
TeardownFailed(t) ==
  /\ snapshot # NoSnapshot
  /\ agentsBefore[t] > 0 /\ t \notin snapshot
  /\ runningAgents[t] = 0
  /\ (worktrees[t] \/ assigned[t])

\* C10: after a failed start (in this pass or the one before) or a failed
\* teardown, the orchestrator is still running and its loop is alive: it is
\* reconciling, or awaiting the next snapshot and able to take any.
C10_FailureKeepsLoopAlive ==
  (failed # {} \/ prevFailed # {} \/ \E t \in Tasks : TeardownFailed(t)) =>
     /\ isRunning
     /\ loop \in {"reconciling", "awaitSnapshot"}
     /\ (loop = "awaitSnapshot" => \A S \in SUBSET Tasks : ENABLED Snapshot(S))

\* C10 witness: the start of t1 failed in the previous pass; the next
\* snapshot {t2} was consumed and reconciled, t2 got its agent.
C10_Witness ==
  /\ prevFailed = {"t1"}
  /\ snapshot = {"t2"}
  /\ loop = "awaitSnapshot"
  /\ agentsBefore["t2"] = 0 /\ runningAgents["t2"] = 1

\* The i-th provider call issued for task t is `c'.
CallIs(t, i, c) == i <= Len(callLog[t]) /\ callLog[t][i] = c

\* The i-th provider call issued for task t has settled and resolved / rejected.
Resolved(t, i) == i <= Len(okLog[t]) /\ okLog[t][i]
Rejected(t, i) == i <= Len(okLog[t]) /\ ~okLog[t][i]

\* C11: the provider calls of a start are issued in the order workspace
\* create, session create, initial prompt, assignTask, each at its place and
\* only after the previous one resolved; after a failed workspace creation
\* none of the other three is ever issued.
C11_StartCallsInOrder ==
  \A t \in Tasks : \A i \in 1..Len(callLog[t]) :
     /\ callLog[t][i] = "create"        => i = 1
     /\ callLog[t][i] = "createSession" => i = 2 /\ Resolved(t, 1)
     /\ callLog[t][i] = "sendMessage"   => i = 3 /\ Resolved(t, 2)
     /\ callLog[t][i] = "assignTask"    => i = 4 /\ Resolved(t, 3)

\* C11 witness: in one pass the workspace creation of t1 failed and its start
\* is over (only the cleanup calls followed), while t2 went through all four
\* calls.
C11_Witness ==
  /\ callLog["t1"] = <<"create", "unassignTask", "remove">>
  /\ Rejected("t1", 1)
  /\ startPc["t1"] = "idle" /\ "t1" \in failed
  /\ callLog["t2"] = <<"create", "createSession", "sendMessage", "assignTask">>
  /\ runningAgents["t2"] = 1

\* The start of t created the workspace and then failed to create the session.
SessionCreationFailed(t) ==
  /\ CallIs(t, 1, "create") /\ Resolved(t, 1)
  /\ CallIs(t, 2, "createSession") /\ Rejected(t, 2)

\* C12: when session creation fails after the workspace was created, the
\* workspace removal is the next call issued, the start ends by reporting its
\* error (after that removal), and no RunningAgent is registered for the task.
C12_SessionFailureRemovesWorkspace ==
  \A t \in Tasks :
     SessionCreationFailed(t) =>
        /\ CallIs(t, 3, "remove")
        /\ runningAgents[t] = 0
        /\ (startPc[t] = "idle" => t \in failed)

\* C12 witness: the start of t1 is over after a failed session creation, the
\* compensating removal resolved and the workspace is gone.
C12_Witness ==
  /\ SessionCreationFailed("t1")
  /\ Resolved("t1", 3)
  /\ startPc["t1"] = "idle" /\ "t1" \in failed
  /\ ~worktrees["t1"]

\* The start of t failed to send the initial prompt.
PromptFailed(t) == CallIs(t, 3, "sendMessage") /\ Rejected(t, 3)

\* C13 as stated: after a failed prompt the session removal and then the
\* workspace removal are issued before the error is reported, and when the
\* start is over neither the session nor the workspace remains.
C13_PromptFailureLeavesNothing ==
  \A t \in Tasks :
     PromptFailed(t) =>
        /\ CallIs(t, 4, "removeSession")
        /\ (Len(callLog[t]) >= 5 => CallIs(t, 5, "remove"))
        /\ (startPc[t] = "idle" =>
              t \in failed /\ ~sessions[t] /\ ~worktrees[t])

\* C13 amended: after a failed prompt the session removal and then the
\* workspace removal are issued before the error is reported; when the start
\* is over no session of the task is tracked, and the workspace remains only
\* if every workspace removal issued by that start was rejected.
C13_PromptFailureRollsBack ==
  \A t \in Tasks :
     PromptFailed(t) =>
        /\ CallIs(t, 4, "removeSession")
        /\ (Len(callLog[t]) >= 5 => CallIs(t, 5, "remove"))
        /\ (startPc[t] = "idle" =>
              /\ t \in failed
              /\ ~sessions[t]
              /\ (worktrees[t] =>
                    \A i \in 1..Len(callLog[t]) :
                       callLog[t][i] = "remove" => Rejected(t, i)))

\* C13 witness: the start of t1 is over after a failed prompt; session and
\* workspace were removed by the compensation.
C13_Witness ==
  /\ PromptFailed("t1")
  /\ Resolved("t1", 4) /\ Resolved("t1", 5)
  /\ startPc["t1"] = "idle" /\ "t1" \in failed
  /\ ~sessions["t1"] /\ ~worktrees["t1"]

\* C14: the teardown sequence never runs twice at a time for one task: while
\* the teardown of stop() is in progress a handleSessionIdle() call issues no
\* provider call (it does not enter cleanup()), and the other way round.
C14_NoConcurrentTeardown ==
  \A t \in Tasks : ~(stopPc[t] # "idle" /\ idlePc[t] # "idle")

\* The calls logged for task t are those of a stop().
StopIssued(t) == callLog[t] # <<>> /\ callLog[t][1] # "create"

\* C15: a stop that has settled issued all three teardown calls, session
\* removal, unassignTask, workspace removal, whatever the outcome of each; it
\* raised nothing (no error is reported for the task) and the agent is
\* stopped and removed.
C15_StopAttemptsAllSteps ==
  \A t \in Tasks :
     (StopIssued(t) /\ stopPc[t] = "idle") =>
        /\ callLog[t] = <<"removeSession", "unassignTask", "remove">>
        /\ Len(okLog[t]) = 3
        /\ t \notin failed
        /\ ~agentIsRunning[t]
        /\ runningAgents[t] = 0

\* C15 witness: the stop of t1 has settled; unassignTask was rejected and
\* the workspace removal, attempted all the same, was rejected too.
C15_Witness ==
  /\ StopIssued("t1") /\ stopPc["t1"] = "idle"
  /\ Resolved("t1", 1) /\ Rejected("t1", 2) /\ Rejected("t1", 3)
  /\ CallIs("t1", 3, "remove")
  /\ worktrees["t1"]

\* The workspace, session or prompt step of t's start was rejected.
StepFailed(t) ==
  \/ CallIs(t, 1, "create") /\ Rejected(t, 1)
  \/ CallIs(t, 2, "createSession") /\ Rejected(t, 2)
  \/ PromptFailed(t)

ExpectedError(t) ==
  IF Rejected(t, 1) THEN "create"
  ELSE IF Rejected(t, 2)
       THEN IF Rejected(t, 3) THEN "remove" ELSE "createSession"
       ELSE IF Rejected(t, 4) THEN "removeSession"
            ELSE IF Rejected(t, 5) THEN "remove" ELSE "sendMessage"

C17_AssignFailureIsNotFatal ==
  \A t \in Tasks :
     (CallIs(t, 4, "assignTask") /\ Rejected(t, 4)) =>
        /\ startPc[t] = "idle"
        /\ startResult[t] = "resolved"
        /\ t \notin failed
        /\ Len(callLog[t]) = 4
        /\ agentIsRunning[t] /\ session[t]
        /\ sessions[t] /\ worktrees[t]
        /\ runningAgents[t] = 1

\* C17 witness: the start of t1 went through a rejected assignTask; the task
\* is not assigned and the pass is over with t1 agented.
C17_Witness ==
  /\ CallIs("t1", 4, "assignTask") /\ Rejected("t1", 4)
  /\ ~assigned["t1"]
  /\ loop = "awaitSnapshot"
  /\ GetRunningAgents = {"t1"}

\* The RunningAgent of t exists: it is registered, or its start is in
\* progress (status `starting').
OwnerExists(t) == runningAgents[t] > 0 \/ startPc[t] # "idle"

\* C18 as stated: at every reachable state a session of the task is tracked
\* if and only if the RunningAgent of the task exists (counting an agent
\* being started as existing when it has a session, and as not yet existing
\* when it has none).
C18_SessionIffRunningAgent ==
  \A t \in Tasks :
     /\ sessions[t] => OwnerExists(t)
     /\ runningAgents[t] > 0 => sessions[t]

\* C18 amended: whenever no start or stop of the task is in progress, a
\* session of the task is tracked if and only if its RunningAgent exists.
C18_SessionIffRunningAgentAtRest ==
  \A t \in Tasks :
     Settled(t) => (sessions[t] <=> runningAgents[t] > 0)

\* C18 witness: a pass is over; t1 has its agent and its session, t2 (agented
\* before the pass) has lost both.
C18_Witness ==
  /\ loop = "awaitSnapshot"
  /\ runningAgents["t1"] = 1 /\ sessions["t1"]
  /\ agentsBefore["t2"] = 1
  /\ runningAgents["t2"] = 0 /\ ~sessions["t2"]

\* The polling loops that have not ended.
ActiveLoops == {i \in 1..Len(loops) : loops[i].pc # "done"}

\* C19: a startMonitoring call for a session that is monitored changes
\* nothing (no loop is started, the monitored count and the handles stay as
\* they are); for a session that is not monitored it starts exactly one loop,
\* returns while that loop is suspended at its first status query, and the
\* session (and one more session than before) is then monitored.
C19_DuplicateStartMonitoringIsNoOp ==
  [][\A sid \in SessionIds :
        StartMonitoring(sid) =>
           IF IsMonitoring(sid)
           THEN UNCHANGED <<abortControllers, loops, now>>
           ELSE /\ Len(loops') = Len(loops) + 1
                /\ ActiveLoops' = ActiveLoops \cup {Len(loops')}
                /\ loops'[Len(loops')].sid = sid
                /\ loops'[Len(loops')].pc = "query"
                /\ IsMonitoring(sid)'
                /\ GetMonitoredCount' = GetMonitoredCount + 1]_vars

\* C19 witness: s1 is monitored by the one loop started for it although
\* startMonitoring was called twice for it, and s2 is monitored as well.
C19_Witness ==
  /\ monitorCalls = 3
  /\ Len(loops) = 2
  /\ loops[1].sid = "s1" /\ loops[2].sid = "s2"
  /\ abortControllers["s1"] = 1 /\ abortControllers["s2"] = 2
  /\ ActiveLoops = {1, 2}

\* C20: a monitored session is monitored by a loop that started at most
\* timeoutMs + pollIntervalMs ago, so a session that never reports idle is
\* no longer monitored after that time; a loop that timed out has not
\* invoked the completion callback.
C20_TimeoutBound ==
  /\ \A sid \in SessionIds :
        IsMonitoring(sid) =>
           /\ abortControllers[sid] \in ActiveLoops
           /\ now - loops[abortControllers[sid]].startTime
                 <= TimeoutMs + PollIntervalMs
  /\ \A i \in 1..Len(loops) :
        loops[i].result = "timed-out" =>
           /\ loops[i].called = 0
           /\ abortControllers[loops[i].sid] # i

\* C20 witness: the loop of s1 never saw the session idle and timed out at
\* the first poll after the timeout; s1 is no longer monitored.
C20_Witness ==
  /\ Len(loops) = 1
  /\ loops[1].sid = "s1"
  /\ loops[1].result = "timed-out"
  /\ loops[1].called = 0
  /\ now - loops[1].startTime > TimeoutMs
  /\ ~IsMonitoring("s1")

\* C21: when the status query of a loop that was not cancelled reports the
\* session stopped or absent from the live session set, the loop ends with
\* result idle-detected in that step, the session is no longer monitored and
\* the completion callback (the review agent) is invoked once.
C21_IdleReportEndsLoop ==
  [][\A i \in 1..MaxMonitorCalls, report \in {"stopped", "absent"} :
        (QueryDone(i, report) /\ ~loops[i].aborted) =>
           /\ loops'[i].pc = "done"
           /\ loops'[i].result = "idle-detected"
           /\ ~IsMonitoring(loops[i].sid)'
           /\ loops'[i].called = loops[i].called + 1]_vars

\* C21 witness: the loop of s1 polled once without result, slept, and its
\* second query found the session idle; s1 is no longer monitored and the
\* callback was invoked.
C21_Witness ==
  /\ Len(loops) = 1
  /\ loops[1].sid = "s1"
  /\ ~loops[1].aborted
  /\ loops[1].result = "idle-detected"
  /\ loops[1].called = 1
  /\ now = loops[1].startTime + PollIntervalMs
  /\ ~IsMonitoring("s1")

\* C22 as stated: a loop that was cancelled (its signal is aborted) is not
\* sleeping towards a further status query, has not invoked the completion
\* callback, and when it has ended it ended as aborted (by the rejection of
\* delay() or by the return after the while loop), never as idle-detected.
C22_CancelledLoopNeverCompletes ==
  \A i \in 1..Len(loops) :
     loops[i].aborted =>
        /\ loops[i].pc # "delay"
        /\ loops[i].called = 0
        /\ loops[i].pc = "done" => loops[i].result \in {"aborted", "rejected"}

\* C23: a stopMonitoring(id) call on a monitored session returns with
\* isMonitoring(id) false; it takes no time (the clock does not advance
\* during the call, the remaining poll interval is not waited for), the
\* loop's signal is aborted and a loop that was sleeping is no longer
\* sleeping.  The call itself completes: the rejection it causes belongs to
\* the loop, not to the caller.
C23_StopMonitoringIsImmediate ==
  [][\A sid \in SessionIds :
        (StopMonitoring(sid) /\ IsMonitoring(sid)) =>
           /\ ~IsMonitoring(sid)'
           /\ now' = now
           /\ monitorCalls' = monitorCalls + 1
           /\ loops'[abortControllers[sid]].aborted
           /\ loops'[abortControllers[sid]].pc # "delay"
           /\ loops'[abortControllers[sid]].result = "none"]_vars

\* C23 witness: the loop of s1 was stopped in the middle of its sleep; s1 is
\* not monitored although the poll interval has not elapsed.
C23_Witness ==
  /\ Len(loops) = 1
  /\ loops[1].sid = "s1"
  /\ loops[1].aborted
  /\ loops[1].pc = "rejecting"
  /\ now > loops[1].startTime
  /\ now < loops[1].startTime + PollIntervalMs
  /\ ~IsMonitoring("s1")

\* C24: when the status query of a loop that was not cancelled fails, the
\* loop goes to sleep for one poll interval like after a not-idle answer:
\* it has not ended, the handles are unchanged (the session stays monitored
\* if it was), the completion callback is not invoked, and the start time
\* against which the timeout is measured is unchanged.
C24_QueryErrorIsNotIdle ==
  [][\A i \in 1..MaxMonitorCalls :
        (QueryDone(i, "error") /\ ~loops[i].aborted) =>
           /\ loops'[i].pc = "delay"
           /\ loops'[i].retrying
           /\ loops'[i].due = now + PollIntervalMs
           /\ loops'[i].result = "none"
           /\ loops'[i].called = loops[i].called
           /\ loops'[i].startTime = loops[i].startTime
           /\ abortControllers' = abortControllers
           /\ \A j \in 1..Len(loops) : j # i => loops'[j] = loops[j]]_vars

\* C24 witness: the second status query of the loop of s1 failed; the loop
\* sleeps towards its next poll, s1 is monitored, the callback was not
\* invoked and the timeout still counts from the start of the loop.
C24_Witness ==
  /\ Len(loops) = 1
  /\ loops[1].sid = "s1"
  /\ loops[1].pc = "delay"
  /\ loops[1].retrying
  /\ loops[1].called = 0
  /\ now = loops[1].startTime + PollIntervalMs
  /\ loops[1].due = now + PollIntervalMs
  /\ abortControllers["s1"] = 1

\* The ReviewAgent with its scheduling: a status query returns, a due timer
\* fires, a pending rejection is delivered, and time advances.  Up to
\* MaxFairCalls calls are made on it.
MonitorFairNext ==
  \/ \E sid \in SessionIds : monitorCalls < MaxFairCalls /\ StartMonitoring(sid)
  \/ \E sid \in SessionIds : monitorCalls < MaxFairCalls /\ StopMonitoring(sid)
  \/ monitorCalls < MaxFairCalls /\ StopAllMonitoring
  \/ \E i \in 1..MaxFairCalls, report \in StatusReports : QueryDone(i, report)
  \/ \E i \in 1..MaxFairCalls : DelayDone(i)
  \/ \E i \in 1..MaxFairCalls : DelayRejected(i)
  \/ Tick

MonitorFairSpec ==
  /\ Init /\ [][MonitorFairNext]_vars
  /\ WF_vars(Tick)
  /\ \A i \in 1..MaxMonitorCalls :
        /\ WF_vars(\E report \in StatusReports : QueryDone(i, report))
        /\ WF_vars(DelayDone(i))
        /\ WF_vars(DelayRejected(i))

\* The results a polling loop can end with; a cancelled loop ends as aborted
\* either by the return after the while loop or by the rejection of delay().
LoopResults == {"idle-detected", "timed-out", "aborted", "rejected"}

\* Loop i has ended with one of the three results.
LoopOver(i) ==
  /\ i <= Len(loops)
  /\ loops[i].pc = "done"
  /\ loops[i].result \in LoopResults

\* Loop i has been started early enough for its timeout to fall within the
\* modelled time.
WithinHorizon(i) ==
  /\ i <= Len(loops)
  /\ loops[i].startTime + TimeoutMs + PollIntervalMs <= MaxTime

\* C25: every polling loop started by startMonitoring eventually ends with
\* one of the results idle-detected, timed-out or aborted, and at the step
\* in which it ends its session becomes (or stays) unmonitored; an ended
\* loop keeps its one result and is never resumed.
C25_EveryLoopTerminates ==
  /\ \A i \in 1..MaxMonitorCalls : WithinHorizon(i) ~> LoopOver(i)
  /\ [][\A i \in 1..Len(loops) :
          /\ loops[i].pc # "done" => loops[i].result = "none"
          /\ loops[i].pc = "done" => loops'[i] = loops[i]
          /\ (loops[i].pc # "done" /\ loops'[i].pc = "done") =>
                /\ loops'[i].result \in LoopResults
                /\ ~IsMonitoring(loops[i].sid)']_vars

\* C25 witness: two loops were started for s1 one after the other; the
\* first was cancelled and ended as aborted, the second timed out; s1 is
\* unmonitored again.
C25_Witness ==
  /\ Len(loops) = 2
  /\ \A i \in 1..2 : loops[i].sid = "s1" /\ loops[i].pc = "done"
  /\ loops[1].aborted /\ loops[1].result = "rejected"
  /\ loops[2].result = "timed-out"
  /\ loops[2].startTime >= loops[1].startTime + PollIntervalMs
  /\ ~IsMonitoring("s1")

\* C26 as stated: a stopAllMonitoring() call returns with no session
\* monitored (monitored count 0, isMonitoring false for every id) and with
\* every polling loop that was active cancelled.
C26_StopAllCancelsEveryLoop ==
  [][StopAllMonitoring =>
        /\ GetMonitoredCount' = 0
        /\ \A sid \in SessionIds : ~IsMonitoring(sid)'
        /\ \A i \in ActiveLoops : loops'[i].aborted]_vars

\* C27: a stopMonitoring(id) call for a session that is not monitored
\* changes nothing; for a monitored session it leaves the handle of every
\* other session and every loop but the one it cancels as they are.  In
\* both cases the call completes.
C27_StopMonitoringTouchesOnlyItsSession ==
  [][\A sid \in SessionIds :
        StopMonitoring(sid) =>
           /\ monitorCalls' = monitorCalls + 1
           /\ IF ~IsMonitoring(sid)
              THEN UNCHANGED <<abortControllers, loops, now>>
              ELSE /\ \A other \in SessionIds \ {sid} :
                         abortControllers'[other] = abortControllers[other]
                   /\ \A i \in 1..Len(loops) :
                         i # abortControllers[sid] => loops'[i] = loops[i]
                   /\ Len(loops') = Len(loops)]_vars

\* C27 witness: s1 and s2 were monitored and stopMonitoring("s1") was called
\* (and one call more that changed nothing, such as a second
\* stopMonitoring("s1")): the loop of s1 is cancelled, s2 is still monitored
\* by its uncancelled loop.
C27_Witness ==
  /\ monitorCalls = 4
  /\ Len(loops) = 2
  /\ loops[1].sid = "s1" /\ loops[1].aborted
  /\ loops[2].sid = "s2" /\ ~loops[2].aborted /\ loops[2].pc = "delay"
  /\ abortControllers = [sid \in SessionIds |->
                           IF sid = "s2" THEN 2 ELSE NoLoop]

\* The uncancelled polling loops of a session that have not ended.
UncancelledLoops(sid) ==
  {i \in ActiveLoops : loops[i].sid = sid /\ ~loops[i].aborted}

\* C28 as stated: at every moment a session has at most one uncancelled
\* polling loop, and isMonitoring(id) is true exactly when it has one.
C28_HandleIffOneUncancelledLoop ==
  \A sid \in SessionIds :
     /\ Cardinality(UncancelledLoops(sid)) <= 1
     /\ IsMonitoring(sid) <=> UncancelledLoops(sid) # {}

\* Every provider call that settled since the most recent call on the agent
\* of t resolved.
AllResolved(t) == \A i \in 1..Len(okLog[t]) : okLog[t][i]

\* C29 as stated, for the runs in which no provider call was rejected since
\* stop() was called, no start failed and handleSessionIdle() was never
\* called: once start() and stop() have both finished, an agent with
\* isRunning() false has left no session, no workspace and no assignment
\* behind.
C29_StopDuringStartLeavesNothing ==
  \A t \in Tasks :
     ( /\ Settled(t)
       /\ idlePc[t] = "idle" /\ onCompleteCalls[t] = 0 /\ t \notin failed
       /\ callLog[t] # <<>>
       /\ AllResolved(t)
       /\ ~agentIsRunning[t] ) =>
        (~sessions[t] /\ ~worktrees[t] /\ ~assigned[t])

C31_OnCompleteAtMostOnce ==
  \A t \in Tasks : onCompleteCalls[t] <= 1

\* C32: handleSessionIdle invokes onComplete only after its cleanup has
\* attempted session removal, task unassignment and workspace removal and
\* isRunning() has become false; with no session it invokes onError and
\* not onComplete.
C32_OnCompleteOnlyAfterFullCleanup ==
  [][\A t \in Tasks :
       (idlePc[t] # "idle" /\ idlePc'[t] = "idle") =>
         /\ ~agentIsRunning'[t]
         /\ onCompleteCalls'[t] # onCompleteCalls[t] =>
              idleLog[t] = <<"removeSession", "unassignTask", "remove">>
         /\ ~session[t] =>
              /\ onCompleteCalls'[t] = onCompleteCalls[t]
              /\ onErrorCalls'[t] = onErrorCalls[t] + 1]_vars

\* The calls logged for task t are those of a start(): a start() issues
\* worktreeManager.create first, a stop() never issues it.
StartLogged(t) == CallIs(t, 1, "create")

\* C33: a start that fails before assignTask was called never calls
\* unassignTask: in the calls of one start() every unassignTask is preceded
\* by an assignTask.
C33_FailedStartNeverUnassigns ==
  \A t \in Tasks :
    StartLogged(t) =>
      \A i \in 1..Len(callLog[t]) :
        CallIs(t, i, "unassignTask") =>
          \E j \in 1..(i - 1) : CallIs(t, j, "assignTask")

\* Number of times the provider call c was issued for task t.
TimesCalled(t, c) ==
  Cardinality({i \in 1..Len(callLog[t]) : callLog[t][i] = c})

\* C34: during a single failed start the workspace remove is called at most
\* once and the session remove is called at most once.
C34_CompensationsIssuedOnce ==
  \A t \in Tasks :
    StartLogged(t) =>
      /\ TimesCalled(t, "remove") <= 1
      /\ TimesCalled(t, "removeSession") <= 1

\* A call was made on the agent of t and it changed none of the positions
\* of start(), stop() and handleSessionIdle(): it returned at its guard.
ReturnedAtGuard(t) ==
  /\ agentCalls' # agentCalls
  /\ startPc'[t] = startPc[t]
  /\ stopPc'[t] = stopPc[t]
  /\ idlePc'[t] = idlePc[t]

C36_CallbackOnceAfterHandleRemoved ==
  [][\A i \in 1..Len(loops) :
       loops'[i].called # loops[i].called =>
         /\ loops[i].called = 0
         /\ loops'[i].called = 1
         /\ ~IsMonitoring(loops[i].sid)']_vars

\* C36 witness: two startMonitoring calls for the same session have each
\* invoked the callback once.
C36_Witness ==
  \E i, j \in 1..Len(loops) :
    /\ i < j
    /\ loops[i].sid = loops[j].sid
    /\ loops[i].called = 1
    /\ loops[j].called = 1

(***************************************************************************)
(* OpencodeSessionManager under concurrent calls (SessionSpec)             *)
(*                                                                         *)
(* createSession(taskId) and removeSession(taskId) are called in any       *)
(* order, also while earlier calls are suspended at their request to the   *)
(* OpenCode server.  The i-th call that creates a session on the server    *)
(* gets the session id i.                                                  *)
(***************************************************************************)
\* hasSession(taskId).
HasSession(t) == sessionMap[t] # NoSession

\* getAllSessions(), as the set of the session ids tracked.
GetAllSessions == {sessionMap[t] : t \in Tasks} \ {NoSession}

\* A createSession without the check for a tracked session.
AlreadyExists_Unchecked(map, t) == FALSE

\* createSession(): `if (this.sessions.has(taskId)) throw'.
AlreadyExists(map, t) == map[t] # NoSession

\* removeSession(): `if (!session) throw'.
NotFound(map, t) == map[t] = NoSession

\* this.sessions.set(taskId, agentSession).
SetSession(map, t, sid) == [map EXCEPT ![t] = sid]

\* A removeSession that keeps the entry when the remote delete failed.
DeleteSession_UnlessFailed(map, t, ok) ==
  IF ok THEN [map EXCEPT ![t] = NoSession] ELSE map

\* removeSession(): `this.sessions.delete(taskId)', whatever the remote
\* delete did (`ok').
DeleteSession(map, t, ok) == [map EXCEPT ![t] = NoSession]

SessionCall(op, t, sid, result) ==
  [op |-> op, taskId |-> t, sessionId |-> sid, result |-> result]

\* createSession(taskId) is called: it throws when a session is tracked for
\* the task, otherwise it awaits client.session.create.
SmCreateSession(t) ==
  /\ Len(smCalls) < MaxSessionCalls
  /\ smCalls' = Append(smCalls,
                  SessionCall("createSession", t, NoSession,
                              IF AlreadyExists(sessionMap, t)
                              THEN "rejected" ELSE "pending"))
  /\ UNCHANGED <<coreVars, monVars, sessionMap, remoteSessions>>

\* client.session.create of the i-th call settled.  With a session id in the
\* response the session is tracked and the call resolves; on an error the
\* call rejects and nothing is tracked.
SmCreateSettled(i, ok) ==
  /\ i \in 1..Len(smCalls)
  /\ smCalls[i].op = "createSession"
  /\ smCalls[i].result = "pending"
  /\ IF ok
     THEN /\ remoteSessions' = remoteSessions \cup {i}
          /\ sessionMap' = SetSession(sessionMap, smCalls[i].taskId, i)
          /\ smCalls' = [smCalls EXCEPT ![i].sessionId = i,
                                        ![i].result = "resolved"]
     ELSE /\ smCalls' = [smCalls EXCEPT ![i].result = "rejected"]
          /\ UNCHANGED <<sessionMap, remoteSessions>>
  /\ UNCHANGED <<coreVars, monVars>>

\* removeSession(taskId) is called: it throws when no session is tracked for
\* the task, otherwise it awaits client.session.delete of the tracked one.
SmRemoveSession(t) ==
  /\ Len(smCalls) < MaxSessionCalls
  /\ smCalls' = Append(smCalls,
                  SessionCall("removeSession", t, sessionMap[t],
                              IF NotFound(sessionMap, t)
                              THEN "rejected" ELSE "pending"))
  /\ UNCHANGED <<coreVars, monVars, sessionMap, remoteSessions>>

\* client.session.delete of the i-th call settled: a failure is logged, the
\* entry of the task is deleted and the call resolves.
SmDeleteSettled(i, ok) ==
  /\ i \in 1..Len(smCalls)
  /\ smCalls[i].op = "removeSession"
  /\ smCalls[i].result = "pending"
  /\ remoteSessions' = IF ok THEN remoteSessions \ {smCalls[i].sessionId}
                       ELSE remoteSessions
  /\ sessionMap' = DeleteSession(sessionMap, smCalls[i].taskId, ok)
  /\ smCalls' = [smCalls EXCEPT ![i].result = "resolved"]
  /\ UNCHANGED <<coreVars, monVars>>

SessionNext ==
  \/ \E t \in Tasks : SmCreateSession(t)
  \/ \E i \in 1..MaxSessionCalls, ok \in BOOLEAN : SmCreateSettled(i, ok)
  \/ \E t \in Tasks : SmRemoveSession(t)
  \/ \E i \in 1..MaxSessionCalls, ok \in BOOLEAN : SmDeleteSettled(i, ok)

SessionSpec == Init /\ [][SessionNext]_vars

\* The session ids created on the server by createSession(t) calls that are
\* still there.
RemoteSessionsOf(t) ==
  {i \in remoteSessions : smCalls[i].taskId = t}

\* C37: for any interleaving of concurrent createSession(taskId) calls for
\* the same taskId (no removeSession call is made), at most one remote
\* session is created and every created remote session is tracked.
C37_ConcurrentCreatesMakeOneSession ==
  (\A i \in 1..Len(smCalls) : smCalls[i].op = "createSession") =>
    /\ \A t \in Tasks : Cardinality(RemoteSessionsOf(t)) <= 1
    /\ remoteSessions \subseteq GetAllSessions

\* The call i is a createSession / removeSession that was made by this step.
CalledNow(i, op) ==
  /\ Len(smCalls') = i
  /\ Len(smCalls) = i - 1
  /\ smCalls'[i].op = op

\* C38: createSession(taskId) fails when a session is tracked for taskId and
\* leaves the tracked sessions unchanged, so at most one session is tracked
\* per taskId; when no session is tracked (as after a removeSession that
\* resolved) it is accepted.
C38_CreateRejectedIffTracked ==
  [][\A i \in 1..MaxSessionCalls :
       CalledNow(i, "createSession") =>
         LET t == smCalls'[i].taskId IN
         /\ HasSession(t) =>
              /\ smCalls'[i].result = "rejected"
              /\ UNCHANGED <<sessionMap, remoteSessions>>
         /\ ~HasSession(t) => smCalls'[i].result = "pending"]_vars

\* C38 witness: a session was created and removed, and a later createSession
\* for the same task was accepted and resolved.
C38_Witness ==
  \E t \in Tasks :
    /\ Len(smCalls) = 3
    /\ smCalls[1] = SessionCall("createSession", t, 1, "resolved")
    /\ smCalls[2] = SessionCall("removeSession", t, 1, "resolved")
    /\ smCalls[3] = SessionCall("createSession", t, 3, "resolved")
    /\ sessionMap[t] = 3

\* C39: removeSession(taskId) fails and changes nothing when no session is
\* tracked for taskId; otherwise, when it resolves, the session is no longer
\* tracked (hasSession is false, getAllSessions omits it), also when the
\* remote deletion failed.
C39_RemoveUntracksOrRejects ==
  [][\A i \in 1..MaxSessionCalls :
       /\ CalledNow(i, "removeSession") =>
            /\ UNCHANGED <<sessionMap, remoteSessions>>
            /\ smCalls'[i].result = "rejected" <=> ~HasSession(smCalls'[i].taskId)
       /\ (/\ i <= Len(smCalls)
           /\ smCalls[i].op = "removeSession"
           /\ smCalls[i].result = "pending"
           /\ smCalls'[i].result # "pending") =>
            /\ smCalls'[i].result = "resolved"
            /\ ~HasSession(smCalls[i].taskId)'
            /\ smCalls[i].sessionId \notin GetAllSessions']_vars

\* C39 witness: a removeSession resolved although the remote deletion failed
\* (the session is still on the server), and a removeSession for a task
\* without session was rejected.
C39_Witness ==
  \E t \in Tasks :
    /\ Len(smCalls) = 3
    /\ smCalls[1] = SessionCall("createSession", t, 1, "resolved")
    /\ smCalls[2] = SessionCall("removeSession", t, 1, "resolved")
    /\ smCalls[3] = SessionCall("removeSession", t, NoSession, "rejected")
    /\ 1 \in remoteSessions
    /\ ~HasSession(t)
====
